---- MODULE Spec2Model ----
(***************************************************************************)
(* A model of fuzzy_dates.FuzzyDate (src/fuzzy_dates/fuzzy_dates.py): the  *)
(* multi-form constructor FuzzyDate.__new__, the canonical sortable        *)
(* "yyyy.mm.dd[ HH:MM tz]" string it produces, and get_range().            *)
(*                                                                         *)
(* Python values are modelled as tagged records (None, int, str), strings  *)
(* as sequences of one-character strings compared by code point, so that   *)
(* formatting (f"{int(x):02}"), parsing (DATE_PATTERN, int()) and string   *)
(* comparison are computed the way the interpreter computes them.          *)
(***************************************************************************)
EXTENDS Integers, Sequences, FiniteSets, TLC

VARIABLES a, b, rng

vars == <<a, b, rng>>

----------------------------------------------------------------------------
(* Characters and strings                                                  *)

\* The characters the model's strings are made of.
Digits == <<"0", "1", "2", "3", "4", "5", "6", "7", "8", "9">>

Upper == <<"A", "B", "C", "D", "E", "F", "G", "H", "I", "J", "K", "L", "M",
           "N", "O", "P", "Q", "R", "S", "T", "U", "V", "W", "X", "Y", "Z">>

Lower == <<"a", "b", "c", "d", "e", "f", "g", "h", "i", "j", "k", "l", "m",
           "n", "o", "p", "q", "r", "s", "t", "u", "v", "w", "x", "y", "z">>

IndexIn(seq, c) == CHOOSE i \in 1..Len(seq) : seq[i] = c

InSeq(seq, c) == \E i \in 1..Len(seq) : seq[i] = c

Chars == {" ", "+", "-", ".", "/", ":", "_"}
         \cup {Digits[i] : i \in 1..10}
         \cup {Upper[i] : i \in 1..26} \cup {Lower[i] : i \in 1..26}

\* ord(c): the ASCII code point.
Ord ==
  [c \in Chars |->
     CASE c = " " -> 32
       [] c = "+" -> 43
       [] c = "-" -> 45
       [] c = "." -> 46
       [] c = "/" -> 47
       [] InSeq(Digits, c) -> 47 + IndexIn(Digits, c)
       [] c = ":" -> 58
       [] InSeq(Upper, c) -> 64 + IndexIn(Upper, c)
       [] c = "_" -> 95
       [] InSeq(Lower, c) -> 96 + IndexIn(Lower, c)]

IsDigit(c) == InSeq(Digits, c)                                    \* \d

DigitVal(c) == IndexIn(Digits, c) - 1

IsLetter(c) == InSeq(Upper, c) \/ InSeq(Lower, c)                 \* [A-Za-z]

IsWord(c) == IsLetter(c) \/ c = "_"                               \* [A-Za-z_]

IsSpace(c) == c = " "                                             \* \s

IsSep(c) == c \in {".", "-", "/"}                                 \* [.\-/]

AllOf(s, lo, hi, P(_)) == \A i \in lo..hi : P(s[i])

\* Python's str < str: the first differing character decides, a proper
\* prefix is smaller.
StrLt(s, t) ==
  \E i \in 1..(Len(t)) :
     /\ \A j \in 1..(i - 1) : j <= Len(s) /\ s[j] = t[j]
     /\ \/ i = Len(s) + 1
        \/ i <= Len(s) /\ Ord[s[i]] < Ord[t[i]]

StrLe(s, t) == s = t \/ StrLt(s, t)

\* str.strip()
RECURSIVE LStrip(_)
LStrip(s) == IF s # <<>> /\ IsSpace(Head(s)) THEN LStrip(Tail(s)) ELSE s

RECURSIVE RStrip(_)
RStrip(s) ==
  IF s # <<>> /\ IsSpace(s[Len(s)]) THEN RStrip(SubSeq(s, 1, Len(s) - 1)) ELSE s

Strip(s) == RStrip(LStrip(s))

----------------------------------------------------------------------------
(* Python values                                                           *)

\* None, an int and a str.
PyNone == [none |-> TRUE]

PyInt(i) == [int |-> i]

PyStr(t) == [str |-> t]

IsInt(x) == DOMAIN x = {"int"}

IsStr(x) == DOMAIN x = {"str"}

EmptyStr == PyStr(<<>>)

\* bool(x)
Truthy(x) ==
  CASE x = PyNone -> FALSE
    [] IsInt(x) -> x.int # 0
    [] IsStr(x) -> x.str # <<>>

\* "not x" where the code asks "x in (None, '')": an integer 0 is taken
\* for a missing component.
IsBlank_Falsy(x) == ~ Truthy(x)

\* x in (None, "")
IsBlank(x) == x = PyNone \/ x = EmptyStr

\* The value of a run of decimal digits.
RECURSIVE DigitsVal(_)
DigitsVal(s) ==
  IF s = <<>> THEN 0 ELSE 10 * DigitsVal(SubSeq(s, 1, Len(s) - 1)) + DigitVal(s[Len(s)])

\* int(x): whether it succeeds, and its value. A str is stripped, may carry
\* one sign, and must then be a non-empty run of digits; None is a TypeError.
IntOk(x) ==
  CASE x = PyNone -> FALSE
    [] IsInt(x) -> TRUE
    [] IsStr(x) ->
         LET t == Strip(x.str)
             u == IF t # <<>> /\ Head(t) \in {"+", "-"} THEN Tail(t) ELSE t
         IN  u # <<>> /\ AllOf(u, 1, Len(u), IsDigit)

IntVal(x) ==
  CASE IsInt(x) -> x.int
    [] IsStr(x) ->
         LET t == Strip(x.str)
             neg == t # <<>> /\ Head(t) = "-"
             u == IF t # <<>> /\ Head(t) \in {"+", "-"} THEN Tail(t) ELSE t
         IN  IF neg THEN 0 - DigitsVal(u) ELSE DigitsVal(u)

\* str(n) for n >= 0
RECURSIVE NatStr(_)
NatStr(n) ==
  IF n < 10 THEN <<Digits[n + 1]>> ELSE Append(NatStr(n \div 10), Digits[(n % 10) + 1])

RECURSIVE ZeroFill(_, _)
ZeroFill(s, w) == IF Len(s) >= w THEN s ELSE ZeroFill(<<"0">> \o s, w)

\* f"{n:0w}": zero-padded to width w, the sign counted in the width.
Fmt(n, w) ==
  IF n < 0 THEN <<"-">> \o ZeroFill(NatStr(0 - n), w - 1) ELSE ZeroFill(NatStr(n), w)

----------------------------------------------------------------------------
(* The two patterns                                                        *)

\* [A-Za-z_]+/[A-Za-z_]+ matched against the whole of s: the last group of
\* DATE_PATTERN.
ZoneGroupMatch(s) ==
  \E i \in 2..(Len(s) - 1) :
     /\ s[i] = "/"
     /\ AllOf(s, 1, i - 1, IsWord)
     /\ AllOf(s, i + 1, Len(s), IsWord)

\* The index of the first character of s at or after i that is no
\* whitespace (Len(s) + 1 when there is none): where \s+ stops.
RECURSIVE SkipSpace(_, _)
SkipSpace(s, i) == IF i <= Len(s) /\ IsSpace(s[i]) THEN SkipSpace(s, i + 1) ELSE i

NoMatch == [ok |-> FALSE, groups |-> <<>>]

Groups(y, m, d, h, mi, z) == [ok |-> TRUE, groups |-> <<y, m, d, h, mi, z>>]

\* The time block "\s+(\d{2}):(\d{2})\s+([A-Za-z_]+/[A-Za-z_]+)" from index 11
\* of s to its end.
TimeBlockMatch(s) ==
  LET i == SkipSpace(s, 11)
      j == SkipSpace(s, i + 5)
  IN  IF /\ i > 11
         /\ Len(s) >= i + 4
         /\ AllOf(s, i, i + 1, IsDigit)
         /\ s[i + 2] = ":"
         /\ AllOf(s, i + 3, i + 4, IsDigit)
         /\ j > i + 5
         /\ ZoneGroupMatch(SubSeq(s, j, Len(s)))
      THEN Groups(PyStr(SubSeq(s, 1, 4)), PyStr(SubSeq(s, 6, 7)), PyStr(SubSeq(s, 9, 10)),
                  PyStr(SubSeq(s, i, i + 1)), PyStr(SubSeq(s, i + 3, i + 4)),
                  PyStr(SubSeq(s, j, Len(s))))
      ELSE NoMatch

\* DATE_PATTERN.fullmatch(s).groups(): the year and the month block are
\* required (only the day block and the time block inside it are followed
\* by "?"); a group that took no part in the match is None.
DATE_PATTERN(s) ==
  IF ~ (/\ Len(s) >= 7
        /\ AllOf(s, 1, 4, IsDigit)
        /\ IsSep(s[5])
        /\ AllOf(s, 6, 7, IsDigit))
  THEN NoMatch
  ELSE IF Len(s) = 7
  THEN Groups(PyStr(SubSeq(s, 1, 4)), PyStr(SubSeq(s, 6, 7)), PyNone, PyNone, PyNone, PyNone)
  ELSE IF ~ (/\ Len(s) >= 10
             /\ IsSep(s[8])
             /\ AllOf(s, 9, 10, IsDigit))
  THEN NoMatch
  ELSE IF Len(s) = 10
  THEN Groups(PyStr(SubSeq(s, 1, 4)), PyStr(SubSeq(s, 6, 7)), PyStr(SubSeq(s, 9, 10)),
              PyNone, PyNone, PyNone)
  ELSE TimeBlockMatch(s)

\* The index after the leading run of letters of s.
RECURSIVE SkipLetters(_, _)
SkipLetters(s, i) == IF i <= Len(s) /\ IsLetter(s[i]) THEN SkipLetters(s, i + 1) ELSE i

\* TZ_PATTERN.match(s): "^[A-Za-z]+/[A-Za-z_]+" matched at the start of s,
\* whatever follows the match.
TZ_PATTERN(s) ==
  LET i == SkipLetters(s, 1)
  IN  /\ i > 1
      /\ Len(s) >= i + 1
      /\ s[i] = "/"
      /\ IsWord(s[i + 1])

----------------------------------------------------------------------------
(* The calendar                                                            *)

\* calendar.isleap
isleap(y) == y % 4 = 0 /\ (y % 100 # 0 \/ y % 400 = 0)

\* A last day of the month that forgets leap years.
monthrange_NoLeap(y, m) ==
  IF m = 2 THEN 28 ELSE IF m \in {4, 6, 9, 11} THEN 30 ELSE 31

\* calendar.monthrange(y, m)[1], as get_range() calls it
monthrange(y, m) ==
  IF m = 2 THEN (IF isleap(y) THEN 29 ELSE 28)
  ELSE IF m \in {4, 6, 9, 11} THEN 30 ELSE 31

\* The days of month m of year y, as datetime.date counts them.
DaysInMonth(y, m) ==
  IF m = 2 THEN (IF y % 4 = 0 /\ (y % 100 # 0 \/ y % 400 = 0) THEN 29 ELSE 28)
  ELSE IF m \in {4, 6, 9, 11} THEN 30 ELSE 31

\* Whether datetime.date(year=y, month=m, day=d) is a date (else ValueError).
DateOk(y, m, d) ==
  /\ y >= 1 /\ y <= 9999
  /\ m >= 1 /\ m <= 12
  /\ d >= 1 /\ d <= DaysInMonth(y, m)

----------------------------------------------------------------------------
(* FuzzyDate.__new__                                                       *)

\* A FuzzyDate: the str value it is (base) and its attributes.
Instance(base, year, month, day, hour, minute, tz) ==
  [base |-> base, year |-> year, month |-> month, day |-> day,
   hour |-> hour, minute |-> minute, tz |-> tz]

\* What a call of the constructor does: returns an instance, or raises.
Return(inst) == [ok |-> TRUE, inst |-> inst]

Raise(err) == [ok |-> FALSE, err |-> err]

MinYear == 1000

MaxYear == 9999

\* A mark for a missing month or day that sorts after every month and day.
Nines2 == <<"9", "9">>

\* "00", the mark of a missing month or day
Zero2 == <<"0", "0">>

\* "" if x == "00" else x
Unfuzz(x) == IF x = PyStr(Zero2) THEN EmptyStr ELSE x

\* The same without the zero padding: f"{int(x)}".
Pad2OrZero_NoPad(x) ==
  IF x \in {EmptyStr, PyNone, PyStr(Zero2)} THEN Zero2 ELSE Fmt(IntVal(x), 1)

\* f"{int(x):02}" if x not in ("", None, "00") else "00"
Pad2OrZero(x) ==
  IF x \in {EmptyStr, PyNone, PyStr(Zero2)} THEN Zero2 ELSE Fmt(IntVal(x), 2)

\* The time block of the constructor, entered with the validated date part:
\* year, month and day are the padded strings, base is "yyyy.mm.dd".
TimePart(base, year, month, day, hour, minute, tz) ==
  IF IsBlank(hour) /\ IsBlank(minute) /\ IsBlank(tz)
  THEN Return(Instance(base, PyStr(year), Unfuzz(PyStr(month)), Unfuzz(PyStr(day)),
                       hour, minute, tz))
  ELSE IF day = Zero2
  THEN Raise("ValueError: time without day")
  ELSE IF IsBlank(hour) \/ IsBlank(minute) \/ IsBlank(tz)
  THEN Raise("ValueError: partial time")
  ELSE IF ~ IntOk(hour)
  THEN Raise("ValueError: hour not an integer")
  ELSE IF ~ (0 <= IntVal(hour) /\ IntVal(hour) < 24)
  THEN Raise("ValueError: hour out of range")
  ELSE IF ~ IntOk(minute)
  THEN Raise("ValueError: minute not an integer")
  ELSE IF ~ (0 <= IntVal(minute) /\ IntVal(minute) < 60)
  THEN Raise("ValueError: minute out of range")
  ELSE IF ~ IsStr(tz)
  THEN Raise("TypeError: timezone not a string")
  ELSE IF ~ TZ_PATTERN(tz.str)
  THEN Raise("ValueError: timezone format")
  ELSE LET hh == Fmt(IntVal(hour), 2)
           mm == Fmt(IntVal(minute), 2)
       IN  Return(Instance(base \o <<" ">> \o hh \o <<":">> \o mm \o <<" ">> \o tz.str,
                           PyStr(year), Unfuzz(PyStr(month)), Unfuzz(PyStr(day)),
                           PyStr(hh), PyStr(mm), tz))

\* The constructor from the point where year, month, day, hour, minute and
\* tz hold what the seed or the keyword arguments gave.
Validate(year, month, day, hour, minute, tz) ==
  IF \A x \in {year, month, day, hour, minute, tz} : IsBlank(x)
  THEN Return(Instance(<<>>, year, Unfuzz(month), Unfuzz(day), hour, minute, tz))
  ELSE IF ~ Truthy(year)
  THEN Raise("ValueError: year missing")
  ELSE IF ~ IntOk(year)
  THEN Raise("ValueError: year not an integer")
  ELSE IF Truthy(day) /\ ~ Truthy(month)
  THEN Raise("ValueError: day without month")
  ELSE IF ~ (month \in {EmptyStr, PyNone, PyStr(Zero2)} \/ IntOk(month))
          \/ ~ (day \in {EmptyStr, PyNone, PyStr(Zero2)} \/ IntOk(day))
  THEN Raise("ValueError: month or day not an integer")
  ELSE LET yyyy == Fmt(IntVal(year), 4)
           mm == Pad2OrZero(month)
           dd == Pad2OrZero(day)
           int_year == IntVal(PyStr(yyyy))
           int_month == IF mm # Zero2 THEN IntVal(PyStr(mm)) ELSE 1
           int_day == IF dd # Zero2 THEN IntVal(PyStr(dd)) ELSE 1
       IN  IF int_year < MinYear \/ int_year > MaxYear
           THEN Raise("ValueError: year out of range")
           ELSE IF ~ DateOk(int_year, int_month, int_day)
           THEN Raise("ValueError: no such date")
           ELSE TimePart(yyyy \o <<".">> \o mm \o <<".">> \o dd, yyyy, mm, dd,
                         hour, minute, tz)

\* norm(val) of the keyword path
norm(val) == IF val = PyNone THEN EmptyStr ELSE val

\* FuzzyDate(y=.., m=.., d=.., hour=.., minute=.., tz=..); a keyword that is
\* not given is given here as "", its default.
FromKwargs(kw) ==
  Validate(norm(kw.y), norm(kw.m), norm(kw.d), norm(kw.hour), norm(kw.minute), norm(kw.tz))

\* FuzzyDate()
FromNothing == Validate(EmptyStr, EmptyStr, EmptyStr, EmptyStr, EmptyStr, EmptyStr)

\* FuzzyDate(seed) for a str
FromStr(seed) ==
  LET m == DATE_PATTERN(Strip(seed))
  IN  IF ~ m.ok
      THEN Raise("ValueError: invalid string")
      ELSE Validate(m.groups[1], m.groups[2], m.groups[3],
                    m.groups[4], m.groups[5], m.groups[6])

\* FuzzyDate(seed) for a FuzzyDate
FromFuzzyDate(seed) ==
  Validate(seed.year, seed.month, seed.day, seed.hour, seed.minute, seed.tz)

\* FuzzyDate(seed) for a datetime.date that is no datetime
FromDate(seed) ==
  Validate(PyInt(seed.year), PyInt(seed.month), PyInt(seed.day), EmptyStr, EmptyStr, EmptyStr)

EtcUTC == <<"E", "t", "c", "/", "U", "T", "C">>

\* FuzzyDate(seed) for a datetime. seed.tzinfo is "naive" (None), "utc"
\* (equal to timezone.utc), "fixed" (a tzinfo with no key attribute) or
\* "zone" (a ZoneInfo, with its key).
FromDatetime(seed) ==
  IF seed.tzinfo \in {"naive", "utc"}
  THEN Validate(PyInt(seed.year), PyInt(seed.month), PyInt(seed.day),
                PyInt(seed.hour), PyInt(seed.minute), PyStr(EtcUTC))
  ELSE IF seed.tzinfo = "fixed"
  THEN Raise("ValueError: datetime zone")
  ELSE Validate(PyInt(seed.year), PyInt(seed.month), PyInt(seed.day),
                PyInt(seed.hour), PyInt(seed.minute), seed.key)

\* The arguments of one call of the constructor: kind says what was
\* passed, a str seed, keyword arguments kw, or a date or datetime dt.
CallNothing == [kind |-> "nothing"]

CallStr(seed) == [kind |-> "str", seed |-> seed]

CallKwargs(kw) == [kind |-> "kwargs", kw |-> kw]

CallDate(dt) == [kind |-> "date", dt |-> dt]

CallDatetime(dt) == [kind |-> "datetime", dt |-> dt]

\* FuzzyDate.__new__(cls, *args, **kwargs)
FuzzyDate(call) ==
  CASE call.kind = "mixed" -> Raise("ValueError: positional and keyword arguments")
    [] call.kind = "datetime" -> FromDatetime(call.dt)
    [] call.kind = "date" -> FromDate(call.dt)
    [] call.kind = "str" -> FromStr(call.seed)
    [] call.kind = "other" -> Raise("TypeError: seed type")
    [] call.kind = "kwargs" -> FromKwargs(call.kw)
    [] call.kind = "nothing" -> FromNothing

----------------------------------------------------------------------------
(* The methods                                                             *)

\* is_fuzzy
is_fuzzy(self) == self.day = EmptyStr

\* x or default
Or(x, default) == IF Truthy(x) THEN x ELSE default

DateOnly(y, m, d) ==
  FromKwargs([y |-> y, m |-> m, d |-> d,
              hour |-> EmptyStr, minute |-> EmptyStr, tz |-> EmptyStr])

\* What get_range() returns: the two bounds, or the error raised on the way.
Range(start, end) ==
  IF ~ start.ok THEN [ok |-> FALSE, err |-> start.err]
  ELSE IF ~ end.ok THEN [ok |-> FALSE, err |-> end.err]
  ELSE [ok |-> TRUE, start |-> start.inst, end |-> end.inst]

\* get_range() with the end day fixed at "31" whatever the month.
get_range_Day31(self) ==
  LET start_month == Or(self.month, PyStr(<<"0", "1">>))
      start_day == Or(self.day, PyStr(<<"0", "1">>))
      end_month == Or(self.month, PyStr(<<"1", "2">>))
      end_day == Or(self.day, PyStr(<<"3", "1">>))
  IN  Range(DateOnly(self.year, start_month, start_day),
            DateOnly(self.year, end_month, end_day))

\* get_range() with the end day always the last of the month, a given day
\* ignored.
get_range_IgnoreDay(self) ==
  LET start_month == Or(self.month, PyStr(<<"0", "1">>))
      start_day == Or(self.day, PyStr(<<"0", "1">>))
      end_month == Or(self.month, PyStr(<<"1", "2">>))
  IN  IF ~ IntOk(self.year) \/ ~ IntOk(end_month)
      THEN [ok |-> FALSE, err |-> "ValueError: int"]
      ELSE Range(DateOnly(self.year, start_month, start_day),
                 DateOnly(self.year, end_month,
                          PyStr(NatStr(monthrange(IntVal(self.year), IntVal(end_month))))))

\* get_range(): int() and monthrange() are reached only when the day is
\* missing ("or" evaluates its right side only then); int("") raises.
get_range(self) ==
  LET start_month == Or(self.month, PyStr(<<"0", "1">>))
      start_day == Or(self.day, PyStr(<<"0", "1">>))
      end_month == Or(self.month, PyStr(<<"1", "2">>))
  IN  IF Truthy(self.day)
      THEN Range(DateOnly(self.year, start_month, start_day),
                 DateOnly(self.year, end_month, self.day))
      ELSE IF ~ IntOk(self.year) \/ ~ IntOk(end_month)
      THEN [ok |-> FALSE, err |-> "ValueError: int"]
      ELSE Range(DateOnly(self.year, start_month, start_day),
                 DateOnly(self.year, end_month,
                          PyStr(NatStr(monthrange(IntVal(self.year), IntVal(end_month))))))

----------------------------------------------------------------------------
(* The inputs                                                              *)

\* Integer month and day arguments run from 0 to these.
MaxMonthArg == 13

MaxDayArg == 32

S2(c1, c2) == <<c1, c2>>

S4(c1, c2, c3, c4) == <<c1, c2, c3, c4>>

UTC == <<"U", "T", "C">>

Chicago == <<"A", "m", "e", "r", "i", "c", "a", "/", "C", "h", "i", "c", "a", "g", "o">>

BuenosAires ==
  <<"A", "m", "e", "r", "i", "c", "a", "/", "A", "r", "g", "e", "n", "t", "i", "n", "a",
    "/", "B", "u", "e", "n", "o", "s", "_", "A", "i", "r", "e", "s">>

UnderscoreZone == <<"_", "a", "/", "b">>

YearArgs ==
  {PyNone, EmptyStr, PyStr(S4("2", "0", "2", "0")), PyStr(S4("2", "0", "x", "0"))}
  \cup {PyInt(y) : y \in {0, 999, 1000, 1900, 2000, 2019, 2020, 9999, 10000}}

MonthArgs ==
  {PyNone, EmptyStr, PyStr(S2("0", "0")), PyStr(<<"0">>), PyStr(<<"2">>),
   PyStr(S2("0", "2")), PyStr(S2("1", "2")), PyStr(<<"x">>)}
  \cup {PyInt(m) : m \in 0..MaxMonthArg}

DayArgs ==
  {PyNone, EmptyStr, PyStr(S2("0", "0")), PyStr(<<"0">>), PyStr(<<"5">>),
   PyStr(S2("0", "5")), PyStr(S2("3", "1")), PyStr(<<"x">>)}
  \cup {PyInt(d) : d \in 0..MaxDayArg}

HourArgs ==
  {PyNone, EmptyStr, PyStr(S2("0", "5")), PyStr(<<"5">>), PyStr(<<"x">>)}
  \cup {PyInt(h) : h \in {-1, 0, 5, 23, 24}}

MinuteArgs ==
  {PyNone, EmptyStr, PyStr(S2("0", "7")), PyStr(<<"x">>)}
  \cup {PyInt(m) : m \in {0, 59, 60}}

TzArgs ==
  {PyNone, EmptyStr, PyInt(5), PyStr(EtcUTC), PyStr(UTC), PyStr(Chicago),
   PyStr(BuenosAires), PyStr(UnderscoreZone)}

Kw(y, m, d, hour, minute, tz) ==
  [y |-> y, m |-> m, d |-> d, hour |-> hour, minute |-> minute, tz |-> tz]

\* Keyword calls that give no time ...
DateKwargs ==
  {CallKwargs(Kw(y, m, d, EmptyStr, EmptyStr, EmptyStr)) :
     y \in YearArgs, m \in MonthArgs, d \in DayArgs}

\* ... and keyword calls that give some of it, on a full date, a year and
\* month, a year, and nothing.
TimeKwargs ==
  {CallKwargs(Kw(ymd[1], ymd[2], ymd[3], hour, minute, tz)) :
     ymd \in {<<PyInt(2020), PyInt(5), PyInt(15)>>, <<PyInt(2020), PyInt(5), PyNone>>,
              <<PyInt(2020), PyNone, PyNone>>, <<PyNone, PyNone, PyNone>>},
     hour \in HourArgs, minute \in MinuteArgs, tz \in TzArgs}

YearTexts ==
  {S4("0", "9", "9", "9"), S4("1", "0", "0", "0"), S4("2", "0", "1", "9"),
   S4("2", "0", "2", "0"), S4("9", "9", "9", "9")}

MonthTexts == {S2("0", "0"), S2("0", "1"), S2("0", "2"), S2("1", "2"), S2("1", "3")}

DayTexts ==
  {S2("0", "0"), S2("0", "1"), S2("1", "5"), S2("2", "8"), S2("2", "9"), S2("3", "0"),
   S2("3", "1"), S2("3", "2")}

Seps == {".", "-", "/"}

Time(hh, mm, zone) == <<" ">> \o hh \o <<":">> \o mm \o <<" ">> \o zone

TimeTexts ==
  {Time(S2("1", "0"), S2("3", "0"), EtcUTC), Time(S2("0", "0"), S2("0", "0"), EtcUTC),
   Time(S2("2", "3"), S2("5", "9"), Chicago), Time(S2("2", "4"), S2("0", "0"), EtcUTC),
   Time(S2("1", "0"), S2("6", "0"), EtcUTC), Time(S2("1", "0"), S2("3", "0"), UTC),
   Time(S2("1", "0"), S2("3", "0"), BuenosAires),
   Time(S2("1", "0"), S2("3", "0"), UnderscoreZone),
   <<" ">> \o Time(S2("1", "0"), S2("3", "0"), <<" ">> \o EtcUTC),
   <<" ", "1", "0", ":", "3", "0">>}

YearMonthTexts == {y \o <<s>> \o m : y \in YearTexts, s \in Seps, m \in MonthTexts}

DateTexts == {ym \o <<s>> \o d : ym \in YearMonthTexts, s \in Seps, d \in DayTexts}

DateTimeTexts ==
  {y \o <<".">> \o m \o <<".">> \o d \o t :
     y \in YearTexts, m \in MonthTexts, d \in DayTexts, t \in TimeTexts}

OddTexts ==
  {<<>>, S4("2", "0", "2", "0"), <<"2", "0", "2">>, <<"2", "0", "2", "0", ".", "5">>,
   <<"2", "0", "2", "0", ".", "0", "5", ".">>,
   <<" ", "2", "0", "2", "0", ".", "0", "5", ".", "1", "5", " ">>,
   <<"2", "0", "2", "0", ".", "0", "5", ".", "1", "5", "x">>,
   <<"2", "0", "2", "0", ":", "0", "5">>}

StrCalls ==
  {CallStr(s) : s \in YearMonthTexts \cup DateTexts \cup DateTimeTexts \cup OddTexts}

\* datetime.date objects: only dates that exist.
DateYears == {999, 1000, 1900, 2000, 2019, 2020, 9999}

Dates ==
  {[year |-> y, month |-> m, day |-> d] :
     y \in DateYears, m \in 1..12, d \in {1, 15, 28, 29, 30, 31}}

DateCalls == {CallDate(dt) : dt \in {x \in Dates : DateOk(x.year, x.month, x.day)}}

\* datetime.datetime objects, by what their tzinfo is.
ZoneKeys == {PyStr(EtcUTC), PyStr(UTC), PyStr(Chicago), PyStr(BuenosAires)}

TzInfos ==
  {<<"naive", PyNone>>, <<"utc", PyNone>>, <<"fixed", PyNone>>}
  \cup {<<"zone", k>> : k \in ZoneKeys}

DatetimeCalls ==
  {CallDatetime([year |-> ymd[1], month |-> ymd[2], day |-> ymd[3],
                 hour |-> hm[1], minute |-> hm[2], tzinfo |-> tzi[1], key |-> tzi[2]]) :
     ymd \in {<<2020, 5, 15>>, <<2020, 2, 29>>, <<999, 12, 31>>, <<9999, 12, 31>>},
     hm \in {<<0, 0>>, <<10, 30>>, <<23, 59>>},
     tzi \in TzInfos}

OtherCalls == {CallNothing, [kind |-> "mixed"], [kind |-> "other"]}

Calls == DateKwargs \cup TimeKwargs \cup StrCalls \cup DateCalls \cup DatetimeCalls \cup OtherCalls

\* The calls of the two-value specification: every precision of a few
\* dates, each written as integers, as unpadded text and as padded text
\* (an absent month or day as None, "" and "00"), and a few of the other
\* kinds of call.
PairYears == {1000, 2019, 2020, 9999}

PairMonths == {1, 2, 10, 12}

PairDays == {1, 9, 10, 28, 29, 31}

Arg(form, n) ==
  CASE form = "int" -> IF n = 0 THEN PyNone ELSE PyInt(n)
    [] form = "text" -> IF n = 0 THEN EmptyStr ELSE PyStr(NatStr(n))
    [] form = "padded" -> PyStr(ZeroFill(NatStr(n), 2))

PairDateKwargs ==
  {CallKwargs(Kw(Arg(form, y), Arg(form, m), Arg(form, d), EmptyStr, EmptyStr, EmptyStr)) :
     form \in {"int", "text", "padded"}, y \in PairYears,
     m \in {0} \cup PairMonths, d \in {0} \cup PairDays}

PairTimeKwargs ==
  {CallKwargs(Kw(PyInt(2020), PyInt(md[1]), PyInt(md[2]), PyInt(hm[1]), PyInt(hm[2]), tz)) :
     md \in {<<2, 29>>, <<10, 9>>}, hm \in {<<0, 0>>, <<23, 59>>},
     tz \in {PyStr(EtcUTC), PyStr(BuenosAires)}}

PairOtherCalls ==
  {CallNothing,
   CallDate([year |-> 2020, month |-> 2, day |-> 29]),
   CallDate([year |-> 1000, month |-> 1, day |-> 1]),
   CallDate([year |-> 9999, month |-> 12, day |-> 31]),
   CallDatetime([year |-> 2020, month |-> 10, day |-> 9, hour |-> 10, minute |-> 30,
                 tzinfo |-> "utc", key |-> PyNone]),
   CallStr(<<"2", "0", "2", "0", ".", "0", "2">>),
   CallStr(<<"2", "0", "2", "0", "-", "0", "2", "-", "2", "9">>),
   CallStr(<<"2", "0", "2", "0", ".", "0", "0", ".", "0", "9">>),
   CallStr(<<"2", "0", "2", "0", ".", "1", "0", ".", "0", "9">> \o
           Time(S2("1", "0"), S2("3", "0"), Chicago))}

PairCalls == PairDateKwargs \cup PairTimeKwargs \cup PairOtherCalls

----------------------------------------------------------------------------
(* The state: a is the value under construction or constructed (with the   *)
(* call that made it), b a value made from it or beside it, rng what       *)
(* a.get_range() returned.                                                 *)

Unset == [op |-> "unset"]

Init == a = Unset /\ b = Unset /\ rng = Unset

\* a = FuzzyDate(...)
New(calls) ==
  /\ a = Unset
  /\ \E call \in calls : a' = [op |-> "new", call |-> call, res |-> FuzzyDate(call)]
  /\ UNCHANGED <<b, rng>>

\* b = FuzzyDate(...), a second value
Other(calls) ==
  /\ a.op = "new" /\ b = Unset
  /\ \E call \in calls : b' = [op |-> "other", res |-> FuzzyDate(call)]
  /\ UNCHANGED <<a, rng>>

\* b = FuzzyDate(a)
Copy ==
  /\ a.op = "new" /\ a.res.ok /\ b = Unset
  /\ b' = [op |-> "copy", res |-> FromFuzzyDate(a.res.inst)]
  /\ UNCHANGED <<a, rng>>

\* b = FuzzyDate(s) for s the str value of a: a value read back from its
\* stored form
Decode ==
  /\ a.op = "new" /\ a.res.ok /\ b = Unset
  /\ b' = [op |-> "decode", res |-> FromStr(a.res.inst.base)]
  /\ UNCHANGED <<a, rng>>

\* rng = a.get_range()
GetRange ==
  /\ a.op = "new" /\ a.res.ok /\ rng = Unset
  /\ rng' = [op |-> "get_range"] @@ get_range(a.res.inst)
  /\ UNCHANGED <<a, b>>

\* The values go out of scope.
Discard ==
  /\ a # Unset \/ b # Unset
  /\ a' = Unset /\ b' = Unset /\ rng' = Unset

NewAny == New(Calls)

Next == NewAny \/ Copy \/ Decode \/ GetRange \/ Discard

\* One value, any call, and what is derived from it.
Spec == Init /\ [][Next]_vars

NewPair == New(PairCalls)

OtherPair == Other(PairCalls)

NextPair == NewPair \/ OtherPair \/ GetRange \/ Discard

\* Two values made independently, and the range of the first.
SpecPair == Init /\ [][NextPair]_vars

----------------------------------------------------------------------------
(* What the claims speak of                                                *)

\* A component is present when it is neither None nor "".
Present(x) == x # PyNone /\ x # PyStr(<<>>)

\* Two components are the same when they are equal or both absent.
SameComponent(x, y) == x = y \/ (~ Present(x) /\ ~ Present(y))

SameComponents(v, w) ==
  /\ SameComponent(v.year, w.year)
  /\ SameComponent(v.month, w.month)
  /\ SameComponent(v.day, w.day)
  /\ SameComponent(v.hour, w.hour)
  /\ SameComponent(v.minute, w.minute)
  /\ SameComponent(v.tz, w.tz)

Constructed(x) == x.op # "unset" /\ x.res.ok

A == a.res.inst

B == b.res.inst

NonEmpty(v) == Present(v.year)

HasTimeBlock(v) == Present(v.hour) \/ Present(v.minute) \/ Present(v.tz)

\* Month and day present, no time block.
ExactDateOnly(v) == Present(v.month) /\ Present(v.day) /\ ~ HasTimeBlock(v)

\* The number a component of digits stands for.
Num(x) == DigitsVal(x.str)

\* (year, month, day) of v before (year, month, day) of w in the calendar.
Precedes(v, w) ==
  \/ Num(v.year) < Num(w.year)
  \/ Num(v.year) = Num(w.year) /\ Num(v.month) < Num(w.month)
  \/ Num(v.year) = Num(w.year) /\ Num(v.month) = Num(w.month) /\ Num(v.day) < Num(w.day)

SameDay(v, w) ==
  Num(v.year) = Num(w.year) /\ Num(v.month) = Num(w.month) /\ Num(v.day) = Num(w.day)

\* The Gregorian rule, stated apart from the code's calendar.
GregorianLeap(y) == (y % 400 = 0) \/ (y % 4 = 0 /\ y % 100 # 0)

LastDayOfMonth(y, m) ==
  CASE m = 2 -> IF GregorianLeap(y) THEN 29 ELSE 28
    [] m \in {4, 6, 9, 11} -> 30
    [] OTHER -> 31

\* n in 0..99 as two digits.
TwoDigits(n) == <<Digits[(n \div 10) + 1], Digits[(n % 10) + 1]>>

\* "yyyy.mm.dd"
DateText(yyyy, m, d) == yyyy \o <<".">> \o TwoDigits(m) \o <<".">> \o TwoDigits(d)

\* How much of (year, month, day, time) v gives: 1 a year, 2 a year and a
\* month, 3 a full date, 4 a full date and a time; 0 for anything else.
Level(v) ==
  CASE ~ Present(v.year) -> 0
    [] HasTimeBlock(v) ->
         IF Present(v.month) /\ Present(v.day) /\ Present(v.hour) /\ Present(v.minute)
            /\ Present(v.tz) THEN 4 ELSE 0
    [] Present(v.day) -> IF Present(v.month) THEN 3 ELSE 0
    [] Present(v.month) -> 2
    [] OTHER -> 1

\* w gives what v gives, and more.
Refines(w, v) ==
  /\ Level(v) >= 1 /\ Level(w) > Level(v)
  /\ w.year = v.year
  /\ Level(v) >= 2 => w.month = v.month
  /\ Level(v) >= 3 => w.day = v.day

\* x is a date that f could stand for.
Covers(f, x) ==
  /\ x.year = f.year
  /\ Present(f.month) => x.month = f.month
  /\ Present(f.day) => x.day = f.day

\* Of hour, minute and tz, some but not all are given.
PartialTime(kw) ==
  LET given == {f \in {"hour", "minute", "tz"} : Present(kw[f])}
  IN  given # {} /\ given # {"hour", "minute", "tz"}

AllOrNone(v) ==
  \/ Present(v.hour) /\ Present(v.minute) /\ Present(v.tz)
  \/ ~ Present(v.hour) /\ ~ Present(v.minute) /\ ~ Present(v.tz)

\* C1. Round trip: constructing from the str value ("yyyy.mm.dd" or
\* "yyyy.mm.dd HH:MM Area/Location") of a constructed value succeeds and
\* gives the same components and the same str value. (The str value of the
\* empty value is "", of neither form; the string path refuses it too.)
C1_RoundTrip ==
  (b.op = "decode" /\ NonEmpty(A)) =>
    /\ b.res.ok
    /\ SameComponents(B, A)
    /\ B.base = A.base

\* C2. In every constructed value, day present implies month present.
C2_DayImpliesMonth ==
  Constructed(a) => (Present(A.day) => Present(A.month))

\* C3. For two constructed values with month and day and no time, the
\* str values compare as the dates do: less when the date is earlier, equal
\* when the dates are the same, whatever form the arguments had.
C3_ChronologicalOrder ==
  (Constructed(a) /\ b.op = "other" /\ b.res.ok /\ ExactDateOnly(A) /\ ExactDateOnly(B)) =>
    /\ StrLt(A.base, B.base) <=> Precedes(A, B)
    /\ A.base = B.base <=> SameDay(A, B)

\* Reached: a month given as the unpadded text "2" against a month 10 of the
\* same year, and the str values in the order of the dates.
C3_Witness ==
  /\ Constructed(a) /\ b.op = "other" /\ b.res.ok
  /\ ExactDateOnly(A) /\ ExactDateOnly(B)
  /\ a.call.kind = "kwargs" /\ a.call.kw.m = PyStr(<<"2">>)
  /\ B.year = A.year /\ Num(B.month) = 10
  /\ StrLt(A.base, B.base)

\* C4. A value that adds a month to a year, a day to a year and month, or
\* a time to a full date has the greater str value.
C4_PrecisionOrder ==
  (Constructed(a) /\ b.op = "other" /\ b.res.ok /\ Refines(B, A)) =>
    StrLt(A.base, B.base)

\* Reached: a year against a value of that year with a time, compared.
C4_Witness ==
  /\ Constructed(a) /\ b.op = "other" /\ b.res.ok
  /\ Refines(B, A) /\ Level(A) = 1 /\ Level(B) = 4
  /\ StrLt(A.base, B.base)

\* C5. get_range() of a non-empty value returns bounds that enclose, as str
\* values, every full date without time that the value could stand for.
C5_RangeCovers ==
  (rng.op = "get_range" /\ NonEmpty(A) /\ b.op = "other" /\ b.res.ok
     /\ ExactDateOnly(B) /\ Covers(A, B)) =>
    /\ rng.ok
    /\ StrLe(rng.start.base, B.base)
    /\ StrLe(B.base, rng.end.base)

\* Reached: the range of a leap year's February and its 29th, which is the
\* end of the range.
C5_Witness ==
  /\ rng.op = "get_range" /\ rng.ok /\ b.op = "other" /\ b.res.ok
  /\ ExactDateOnly(B) /\ Covers(A, B)
  /\ Present(A.month) /\ ~ Present(A.day) /\ Num(B.month) = 2 /\ Num(B.day) = 29
  /\ B.base = rng.end.base

\* C6. get_range() of a non-empty value with year y succeeds; start is
\* (y, month or 01, day or 01); end is (y, month or 12, e), e the given day,
\* else the last day of the given month by the Gregorian rule, else 31;
\* both have a day and no time.
C6_RangeBounds ==
  (rng.op = "get_range" /\ NonEmpty(A)) =>
    /\ rng.ok
    /\ LET start_month == IF Present(A.month) THEN Num(A.month) ELSE 1
           start_day == IF Present(A.day) THEN Num(A.day) ELSE 1
           end_month == IF Present(A.month) THEN Num(A.month) ELSE 12
           end_day == IF Present(A.day) THEN Num(A.day)
                      ELSE IF Present(A.month)
                      THEN LastDayOfMonth(Num(A.year), Num(A.month))
                      ELSE 31
       IN  /\ rng.start.year = A.year /\ rng.end.year = A.year
           /\ rng.start.month = PyStr(TwoDigits(start_month))
           /\ rng.start.day = PyStr(TwoDigits(start_day))
           /\ rng.end.month = PyStr(TwoDigits(end_month))
           /\ rng.end.day = PyStr(TwoDigits(end_day))
           /\ rng.start.base = DateText(A.year.str, start_month, start_day)
           /\ rng.end.base = DateText(A.year.str, end_month, end_day)
    /\ Present(rng.start.day) /\ Present(rng.end.day)
    /\ ~ is_fuzzy(rng.start) /\ ~ is_fuzzy(rng.end)
    /\ ~ HasTimeBlock(rng.start) /\ ~ HasTimeBlock(rng.end)

\* Reached: the range of a February of a leap year, ending on the 29th.
C6_Witness ==
  /\ rng.op = "get_range" /\ rng.ok
  /\ Present(A.month) /\ Num(A.month) = 2 /\ ~ Present(A.day)
  /\ GregorianLeap(Num(A.year))
  /\ rng.end.day = PyStr(<<"2", "9">>)

\* C7. From a datetime (of a year the constructor takes): no tzinfo, or a
\* tzinfo that is neither a named zone nor UTC, fails; a named zone or UTC
\* succeeds and the zone's key is stored, "Etc/UTC" for UTC.
C7_DatetimeZone ==
  (a.op = "new" /\ a.call.kind = "datetime"
     /\ a.call.dt.year >= MinYear /\ a.call.dt.year <= MaxYear) =>
    IF a.call.dt.tzinfo \in {"naive", "fixed"}
    THEN ~ a.res.ok
    ELSE /\ a.res.ok
         /\ A.tz = (IF a.call.dt.tzinfo = "utc" THEN PyStr(EtcUTC) ELSE a.call.dt.key)

\* C8. Copy construction of any constructed value succeeds and gives the
\* same components and the same str value.
C8_CopySame ==
  b.op = "copy" =>
    /\ b.res.ok
    /\ SameComponents(B, A)
    /\ B.base = A.base

\* C9. A keyword call that gives some but not all of hour, minute and tz
\* fails (an integer 0 is given), and every constructed value has all
\* three or none.
C9_NoPartialTime ==
  /\ (a.op = "new" /\ a.call.kind = "kwargs" /\ PartialTime(a.call.kw)) => ~ a.res.ok
  /\ Constructed(a) => AllOrNone(A)
  /\ Constructed(b) => AllOrNone(B)
  /\ (rng.op = "get_range" /\ rng.ok) => (AllOrNone(rng.start) /\ AllOrNone(rng.end))

\* Reached: hour=0 alone on a full date, refused as a partial time.
C9_Witness ==
  /\ a.op = "new" /\ a.call.kind = "kwargs"
  /\ a.call.kw.hour = PyInt(0) /\ ~ Present(a.call.kw.minute) /\ ~ Present(a.call.kw.tz)
  /\ ~ a.res.ok /\ a.res.err = "ValueError: partial time"

\* C10 as claimed. A value with month and day, with or without a time, lies
\* within its own range: start <= v <= end as str values.
C10_OwnRange ==
  (rng.op = "get_range" /\ Present(A.month) /\ Present(A.day)) =>
    /\ rng.ok
    /\ StrLe(rng.start.base, A.base)
    /\ StrLe(A.base, rng.end.base)

\* C10 as amended. For a value v with month and day, start <= v, and
\* v <= end exactly when v has no time: with a time, end is the date alone,
\* which is less than v.
C10_OwnRangeAmended ==
  (rng.op = "get_range" /\ Present(A.month) /\ Present(A.day)) =>
    /\ rng.ok
    /\ StrLe(rng.start.base, A.base)
    /\ StrLe(A.base, rng.end.base) <=> ~ HasTimeBlock(A)

\* Reached: the range of a value with a time, whose end is below the value.
C10_Witness ==
  /\ rng.op = "get_range" /\ rng.ok
  /\ Present(A.month) /\ Present(A.day) /\ HasTimeBlock(A)
  /\ StrLt(rng.end.base, A.base)

====
